---------------------------- MODULE Spec2Model ----------------------------
(***************************************************************************)
(* A model of the dblp crawler (crawler.py).                               *)
(*                                                                         *)
(* Strings are sequences of tokens.  The alphabet is chosen so that every  *)
(* literal the program searches for ("https://doi.org", "http", ".pdf",    *)
(* "abs", "%2F", "/", " ") is a sequence of whole tokens; "/" is always a  *)
(* token of its own and no other token contains a slash.                   *)
(*                                                                         *)
(* Python values that the program stores in paper_info are tagged:         *)
(* Str(s) is a str, List(l) a list.  None and a dict are tagged likewise.  *)
(***************************************************************************)
EXTENDS Integers, Sequences, FiniteSets, TLC

VARIABLES
    author,          \* main's argument: the list of author names
    download_pdf,    \* main's argument: the download flag
    ai,              \* number of authors main's outer loop has taken
    pc,              \* where main is: "authors", "papers", "done", "raised"
    paper_list,      \* main's paper_list for the current author
    pi,              \* number of keys of paper_list processed
    paper_info_list, \* main's paper_info_list for the current author
    files,           \* the JSON files on disk: file name -> content
    dirs,            \* the directories on disk created by the save_*_pdfs
    stdout,          \* what main printed
    writes,          \* per author taken: the number of save_to_json calls
    call,            \* the last upstream interaction: what was asked, what came back
    ret              \* what the last call returned (or that it raised)

vars == <<author, download_pdf, ai, pc, paper_list, pi, paper_info_list,
          files, dirs, stdout, writes, call, ret>>

---------------------------------------------------------------------------
(* Bounds of the model.                                                    *)

MaxPapers == 2
MaxRecords == 2
MaxAnchors == 2

---------------------------------------------------------------------------
(* str methods.                                                            *)

Str(s) == [t |-> "str", v |-> s]
List(l) == [t |-> "list", v |-> l]

StartsWith(s, p) == Len(s) >= Len(p) /\ SubSeq(s, 1, Len(p)) = p

EndsWith(s, p) == Len(s) >= Len(p) /\ SubSeq(s, Len(s) - Len(p) + 1, Len(s)) = p

LowerToken(c) ==
    CASE c = "PDF" -> "pdf"
      [] c = "Ada" -> "ada"
      [] c = "Lovelace" -> "lovelace"
      [] c = "Bob" -> "bob"
      [] OTHER -> c

Lower(s) == [i \in DOMAIN s |-> LowerToken(s[i])]

\* the places where old occurs in s
Occurrences(s, old) ==
    {i \in 1..(Len(s) - Len(old) + 1) : SubSeq(s, i, i + Len(old) - 1) = old}

Min(S) == CHOOSE m \in S : \A n \in S : m <= n

\* s.replace(old, new, 1)
ReplaceFirst(s, old, new) ==
    IF Occurrences(s, old) = {} THEN s
    ELSE LET i == Min(Occurrences(s, old))
         IN SubSeq(s, 1, i - 1) \o new \o SubSeq(s, i + Len(old), Len(s))

\* s.replace(" ", "_")
ReplaceSpaces(s) == [i \in DOMAIN s |-> IF s[i] = " " THEN "_" ELSE s[i]]

\* s.split("/")[0]
SplitFirst(s) ==
    IF Occurrences(s, <<"/">>) = {} THEN s
    ELSE SubSeq(s, 1, Min(Occurrences(s, <<"/">>)) - 1)

DOI_PREFIX == <<"http", "s", ":", "/", "/", "doi.org">>
ARXIV_HTTPS == <<"http", "s", ":", "/", "/", "arxiv.org">>
ARXIV_HTTP == <<"http", ":", "/", "/", "arxiv.org">>
DOT_PDF == <<".", "pdf">>

\* re.search(r"^(?:[^\/]*\/){2}([^\/]*)", url): the match, or no match
DomainMatch(url) ==
    LET slashes == Occurrences(url, <<"/">>)
    IN IF Cardinality(slashes) < 2 THEN [found |-> FALSE, group |-> <<>>]
       ELSE LET second == Min(slashes \ {Min(slashes)})
                later == {i \in slashes : i > second}
                last == IF later = {} THEN Len(url) ELSE Min(later) - 1
            IN [found |-> TRUE, group |-> SubSeq(url, 1, last)]

---------------------------------------------------------------------------
(* dict and defaultdict(lambda: []).                                       *)

EmptyDict == <<>>

Put(d, k, v) == [x \in DOMAIN d \cup {k} |-> IF x = k THEN v ELSE d[x]]

\* paper_info[k] on the defaultdict: a missing key is created with []
Touch(d, k) == IF k \in DOMAIN d THEN d ELSE Put(d, k, List(<<>>))

Item(d, k) == Touch(d, k)[k]

---------------------------------------------------------------------------
(* What the network returns.                                               *)
(*                                                                         *)
(* An XML element is its first child: a text node with its data, or none.  *)
(* A record (an article or inproceedings element) is the lists of its      *)
(* author, title, year and ee elements, with the landing page the web      *)
(* serves for its first ee.  A landing page is the URL the request ended   *)
(* at (html.url) and the page's <a> tags, each with or without an href.    *)

Text(s) == [has |-> TRUE, data |-> s]
NoText == [has |-> FALSE, data |-> <<>>]

Href(h) == [hasHref |-> TRUE, href |-> h]
NoHref == [hasHref |-> FALSE, href |-> <<>>]

---------------------------------------------------------------------------
(* save_doi_pdfs, save_other_pdfs.  paper_name is the tagged value of      *)
(* paper_info["title"]: a list there (no title was parsed) has no split.   *)
(* bad is the set of URLs for which scihub_download raises.                *)

SavePath(name) == <<".", "/">> \o Lower(ReplaceSpaces(name))

save_doi_pdfs(url, name, paper_name, ds, bad) ==
    IF paper_name.t # "str"
    THEN [raised |-> TRUE, dirs |-> ds]
    ELSE [raised |-> url \in bad, dirs |-> ds \cup {SavePath(name)}]

save_other_pdfs(url, name, paper_name, ds) ==
    IF paper_name.t # "str"
    THEN [raised |-> TRUE, dirs |-> ds]
    ELSE [raised |-> FALSE, dirs |-> ds \cup {SavePath(name)}]

---------------------------------------------------------------------------
(* get_paper_info: the scan of the landing page's links.                   *)
(* c is the call's context: [download, name, url, bad, item].              *)
(* st is the loop's state: [d, dirs, pdf_links, exc, brk, log].            *)
(* log is the call's record of what it asked of the outside: each          *)
(* retrieval it started and each landing page it requested, with the       *)
(* record (by position in the response) it was for and how it ended: a     *)
(* retrieval "ok" or "raised", a page "ok", "request raised" (the request  *)
(* or the parse of its answer) or "scan raised" (the loop over its links). *)

Retrieval(c, url, raised) ==
    [kind |-> "retrieval", item |-> c.item, url |-> url,
     outcome |-> IF raised THEN "raised" ELSE "ok"]

PageRequest(c, outcome) ==
    [kind |-> "page", item |-> c.item, url |-> <<>>, outcome |-> outcome]

IsArxiv(links) == StartsWith(links, ARXIV_HTTPS) \/ StartsWith(links, ARXIV_HTTP)

\* a rewrite of every "abs" of the link
ArxivPdfEvery(links) ==
    [i \in DOMAIN links |-> IF links[i] = "abs" THEN "pdf" ELSE links[i]] \o DOT_PDF

ArxivPdf(links) == ReplaceFirst(links, <<"abs">>, <<"pdf">>) \o DOT_PDF

\* the candidate appended for a link whose href ends in .pdf
Candidate(href, domain) ==
    IF ~StartsWith(href, domain)
    THEN IF StartsWith(href, <<"http">>) \/ StartsWith(href, <<"http", "s">>)
         THEN href
         ELSE domain \o href
    ELSE href

PdfLink(st, a, c) ==
    LET href == ReplaceFirst(a.href, <<"%2F">>, <<"/">>)
        m == DomainMatch(c.url)
        d1 == IF c.download THEN Touch(st.d, "title") ELSE st.d
        s1 == IF c.download
              THEN save_other_pdfs(href, c.name, d1["title"], st.dirs)
              ELSE [raised |-> FALSE, dirs |-> st.dirs]
    IN IF ~m.found
       THEN [st EXCEPT !.exc = TRUE]
       ELSE [st EXCEPT !.pdf_links = Append(@, Candidate(href, m.group)),
                       !.d = d1, !.dirs = s1.dirs, !.exc = s1.raised,
                       !.log = IF c.download
                               THEN Append(@, Retrieval(c, href, s1.raised))
                               ELSE @]

LinkStep(st, a, c) ==
    IF ~a.hasHref
    THEN [st EXCEPT !.exc = TRUE]
    ELSE LET doi == StartsWith(a.href, DOI_PREFIX) /\ c.download
             d1 == IF doi THEN Touch(st.d, "title") ELSE st.d
             s1 == IF doi
                   THEN save_doi_pdfs(a.href, c.name, d1["title"], st.dirs, c.bad)
                   ELSE [raised |-> FALSE, dirs |-> st.dirs]
             st1 == [st EXCEPT !.d = d1, !.dirs = s1.dirs,
                               !.log = IF doi
                                       THEN Append(@, Retrieval(c, a.href, s1.raised))
                                       ELSE @]
         IN IF s1.raised
            THEN [st1 EXCEPT !.exc = TRUE]
            ELSE IF IsArxiv(st.d["links"].v)
            THEN [st1 EXCEPT !.pdf_links = Append(@, ArxivPdf(st.d["links"].v)),
                             !.brk = TRUE]
            ELSE IF EndsWith(Lower(a.href), DOT_PDF)
            THEN PdfLink(st1, a, c)
            ELSE st1

RECURSIVE ScanLinks(_, _, _)
ScanLinks(st, anchors, c) ==
    IF anchors = <<>> \/ st.exc \/ st.brk
    THEN st
    ELSE ScanLinks(LinkStep(st, Head(anchors), c), Tail(anchors), c)

\* a handler that keeps what the scan had collected when it raised
StorePdfLinksKeeping(st, log, c) ==
    [d |-> Put(st.d, "pdf_links", List(st.pdf_links)), dirs |-> st.dirs, raised |-> FALSE,
     log |-> Append(log, PageRequest(c, IF st.exc THEN "scan raised" ELSE "ok")) \o st.log]

\* how the try block ends after the scan st: paper_info["pdf_links"] is the
\* list collected, or "" by the handler if the scan raised
StorePdfLinks(st, log, c) ==
    IF st.exc
    THEN [d |-> Put(st.d, "pdf_links", Str(<<>>)), dirs |-> st.dirs, raised |-> FALSE,
          log |-> Append(log, PageRequest(c, "scan raised")) \o st.log]
    ELSE [d |-> Put(st.d, "pdf_links", List(st.pdf_links)), dirs |-> st.dirs, raised |-> FALSE,
          log |-> Append(log, PageRequest(c, "ok")) \o st.log]

\* the try block: the request for the landing page, the scan, the handler;
\* nothing is raised out of it
LandingPage(d, ds, log, page, c) ==
    IF page.raises
    THEN [d |-> Put(d, "pdf_links", Str(<<>>)), dirs |-> ds, raised |-> FALSE,
          log |-> Append(log, PageRequest(c, "request raised"))]
    ELSE StorePdfLinks(ScanLinks([d |-> d, dirs |-> ds, pdf_links |-> <<>>,
                                  exc |-> FALSE, brk |-> FALSE, log |-> <<>>],
                                 page.anchors,
                                 [c EXCEPT !.url = page.url]),
                       log, c)

---------------------------------------------------------------------------
(* get_paper_info: one record, all records, the dispatch on the key.       *)
(* st is [d, dirs, raised, log]; a raise leaves the function.              *)

Datas(elems) == [i \in DOMAIN elems |-> elems[i].data]

\* the ee branch of a record: the DOI retrieval, then the landing page
EeBranch(st, d, item, c) ==
    LET links == d["links"].v
        doi == StartsWith(links, DOI_PREFIX) /\ c.download
        d1 == IF doi THEN Touch(d, "title") ELSE d
        s1 == IF doi
              THEN save_doi_pdfs(links, c.name, d1["title"], st.dirs, c.bad)
              ELSE [raised |-> FALSE, dirs |-> st.dirs]
        log1 == IF doi THEN Append(st.log, Retrieval(c, links, s1.raised)) ELSE st.log
    IN IF s1.raised
       THEN [d |-> d1, dirs |-> s1.dirs, raised |-> TRUE, log |-> log1]
       ELSE LandingPage(d1, s1.dirs, log1, item.page, c)

\* an author list started afresh with every record
AddAuthorsFresh(d, item) ==
    IF item.author = <<>> THEN d
    ELSE Put(d, "author", List(Datas(item.author)))

\* the loop over a record's author elements
AddAuthors(d, item) ==
    IF item.author = <<>> THEN d
    ELSE Put(d, "author", List(Item(d, "author").v \o Datas(item.author)))

ItemStep(st, item, c) ==
    LET d1 == AddAuthors(st.d, item)
        d2 == IF item.title = <<>> THEN d1
              ELSE Put(d1, "title", Str(Head(item.title).data))
        d3 == IF item.year = <<>> THEN Put(d2, "year", Str(<<"0">>))
              ELSE Put(d2, "year", Str(Head(item.year).data))
        d4 == IF item.ee = <<>> THEN Put(d3, "links", Str(<<>>))
              ELSE Put(d3, "links", Str(Head(item.ee).data))
        noText == \/ \E i \in DOMAIN item.author : ~item.author[i].has
                  \/ item.title # <<>> /\ ~Head(item.title).has
                  \/ item.year # <<>> /\ ~Head(item.year).has
                  \/ item.ee # <<>> /\ ~Head(item.ee).has
    IN IF noText
       THEN [st EXCEPT !.raised = TRUE]
       ELSE IF item.ee = <<>>
       THEN [st EXCEPT !.d = d4]
       ELSE EeBranch(st, d4, item, c)

RECURSIVE Items(_, _, _)
Items(st, items, c) ==
    IF items = <<>> \/ st.raised
    THEN st
    ELSE Items(ItemStep(st, Head(items), c), Tail(items),
               [c EXCEPT !.item = @ + 1])

None == [t |-> "none", v |-> EmptyDict]
Dict(d) == [t |-> "dict", v |-> d]

\* a dispatch that takes every key that is not conf for a journals key
SelectedElseJournals(paper, resp) ==
    IF SplitFirst(paper) = <<"conf">> THEN [any |-> TRUE, items |-> resp.inproceedings]
    ELSE [any |-> TRUE, items |-> resp.article]

\* the element list a key's publication type selects, if it selects one
Selected(paper, resp) ==
    IF SplitFirst(paper) = <<"journals">> THEN [any |-> TRUE, items |-> resp.article]
    ELSE IF SplitFirst(paper) = <<"conf">> THEN [any |-> TRUE, items |-> resp.inproceedings]
    ELSE [any |-> FALSE, items |-> <<>>]

\* return paper_info, unless the loop over the records raised
ReturnPaperInfo(st) ==
    IF st.raised
    THEN [raised |-> TRUE, value |-> None, dirs |-> st.dirs, log |-> st.log]
    ELSE [raised |-> FALSE, value |-> Dict(st.d), dirs |-> st.dirs, log |-> st.log]

\* resp is what the record request and the requests after it come back with:
\* [raises, article, inproceedings, bad]
get_paper_info(paper, download, name, resp, ds) ==
    IF resp.raises
    THEN [raised |-> TRUE, value |-> None, dirs |-> ds, log |-> <<>>]
    ELSE IF ~Selected(paper, resp).any
    THEN [raised |-> FALSE, value |-> None, dirs |-> ds, log |-> <<>>]
    ELSE ReturnPaperInfo(Items([d |-> EmptyDict, dirs |-> ds, raised |-> FALSE, log |-> <<>>],
                               Selected(paper, resp).items,
                               [download |-> download, name |-> name,
                                url |-> <<>>, bad |-> resp.bad, item |-> 1]))

---------------------------------------------------------------------------
(* get_urlpt, get_list_of_papers.                                          *)
(* search is the answer of the author search: [raises, author], author     *)
(* the list of its author elements, each [hasUrlpt, urlpt].  person is     *)
(* the answer of the person request: [raises, dblpkey], dblpkey the list   *)
(* of its dblpkey elements, each [type, texts]: the type attribute ("" if  *)
(* absent) and the data of the element's text nodes.                       *)

get_urlpt(name, search) ==
    IF search.raises \/ search.author = <<>>
    THEN [raised |-> TRUE, value |-> None]
    ELSE IF Head(search.author).hasUrlpt
    THEN [raised |-> FALSE, value |-> Str(Head(search.author).urlpt)]
    ELSE [raised |-> FALSE, value |-> None]

RECURSIVE Join(_)
Join(texts) == IF texts = <<>> THEN <<>> ELSE Head(texts) \o Join(Tail(texts))

RECURSIVE Papers(_)
Papers(itemlist) ==
    IF itemlist = <<>> THEN <<>>
    ELSE IF Head(itemlist).type = "person record"
    THEN Papers(Tail(itemlist))
    ELSE <<Join(Head(itemlist).texts)>> \o Papers(Tail(itemlist))

\* a lister that takes an empty list for no list
get_list_of_papers_or_none(author_name, search, person) ==
    LET name == get_urlpt(author_name, search)
    IN IF name.raised
       THEN [raised |-> TRUE, value |-> None]
       ELSE IF name.value = None
       THEN [raised |-> FALSE, value |-> None]
       ELSE IF person.raises
       THEN [raised |-> TRUE, value |-> None]
       ELSE IF Papers(person.dblpkey) = <<>>
       THEN [raised |-> FALSE, value |-> None]
       ELSE [raised |-> FALSE, value |-> List(Papers(person.dblpkey))]

get_list_of_papers(author_name, search, person) ==
    LET name == get_urlpt(author_name, search)
    IN IF name.raised
       THEN [raised |-> TRUE, value |-> None]
       ELSE IF name.value = None
       THEN [raised |-> FALSE, value |-> None]
       ELSE IF person.raises
       THEN [raised |-> TRUE, value |-> None]
       ELSE [raised |-> FALSE, value |-> List(Papers(person.dblpkey))]

---------------------------------------------------------------------------
(* save_to_json.                                                           *)

FileName(name) == Lower(ReplaceSpaces(name)) \o <<".json">>

\* json.dump of one element of the list
Json(x) == IF x = None THEN [t |-> "null", v |-> EmptyDict] ELSE [t |-> "object", v |-> x.v]

JsonDump(data) == [i \in DOMAIN data |-> Json(data[i])]

save_to_json(name, data, fs) ==
    [f \in DOMAIN fs \cup {FileName(name)} |->
        IF f = FileName(name) THEN JsonDump(data) ELSE fs[f]]

---------------------------------------------------------------------------
(* The inputs the model draws from.                                        *)

SeqsUpTo(S, n) == UNION {[1..k -> S] : k \in 0..n}

ADA == <<"Ada", " ", "Lovelace">>
ADA_FILE == <<"ada", "_", "lovelace">>
BOB == <<"Bob">>

\* the second list names one author twice, in two spellings of one file name
AuthorLists == {<<ADA, BOB>>, <<ADA, ADA_FILE>>}

JKEY == <<"journals", "/", "corr", "/", "k1">>
CKEY == <<"conf", "/", "sp", "/", "k2">>
PKEY == <<"phd", "/", "k3">>

Searches ==
    { [raises |-> TRUE, author |-> <<>>],
      [raises |-> FALSE, author |-> <<>>],
      [raises |-> FALSE, author |-> <<[hasUrlpt |-> FALSE, urlpt |-> <<>>]>>],
      [raises |-> FALSE, author |-> <<[hasUrlpt |-> TRUE, urlpt |-> <<"l", "/", "Lovelace:Ada">>]>>],
      [raises |-> FALSE, author |-> <<[hasUrlpt |-> FALSE, urlpt |-> <<>>],
                                      [hasUrlpt |-> TRUE, urlpt |-> <<"b", "/", "Bob">>]>>] }

KeyElems ==
    { [type |-> "person record", texts |-> <<<<"homepages", "/", "l", "/", "AdaLovelace">>>>],
      [type |-> "", texts |-> <<JKEY>>],
      [type |-> "", texts |-> << <<"conf", "/">>, <<"sp", "/", "k2">> >>],
      [type |-> "", texts |-> <<PKEY>>] }

NoRequest == [raises |-> FALSE, dblpkey |-> <<>>]

Persons ==
    {[raises |-> TRUE, dblpkey |-> <<>>]}
        \cup {[raises |-> FALSE, dblpkey |-> ks] : ks \in SeqsUpTo(KeyElems, MaxPapers)}

ANN == <<"Ann">>
TITLE1 == <<"On", " ", "Engines">>
TITLE2 == <<"Notes">>
YEAR == <<"1843">>

DOI1 == DOI_PREFIX \o <<"/", "10.1", "/", "x">>
ARXIV1 == ARXIV_HTTPS \o <<"/", "abs", "/", "1234.5678">>
ARXIV2 == ARXIV_HTTP \o <<"/", "abs", "/", "cs", "/", "abs", "0101">>
GENERIC == <<"http", "s", ":", "/", "/", "pub.org", "/", "rec", "/", "7">>

IEEE_URL == <<"http", "s", ":", "/", "/", "ieeexplore.ieee.org", "/", "document", "/", "123">>
SITE_URL == <<"http", "s", ":", "/", "/", "site.org">>

HREF_REL == <<"/", "stamp", "/", "stamp.jsp?file", ".", "pdf">>
HREF_SAME == <<"http", "s", ":", "/", "/", "ieeexplore.ieee.org", "/", "a", ".", "pdf">>
HREF_OTHER == <<"http", ":", "/", "/", "other.org", "/", "b", ".", "PDF">>
HREF_ABOUT == <<"/", "about">>
HREF_ESC == <<"%2F", "docs", "%2F", "c", ".", "pdf">>
HREF_HTTPDIR == <<"http", "docs", "/", "d", ".", "pdf">>

Anchors ==
    {NoHref} \cup {Href(h) : h \in {HREF_REL, HREF_SAME, HREF_OTHER, HREF_ABOUT,
                                     HREF_ESC, HREF_HTTPDIR, DOI1}}

NoPage == [raises |-> FALSE, url |-> <<>>, anchors |-> <<>>]
FailingPage == [raises |-> TRUE, url |-> <<>>, anchors |-> <<>>]
PdfPage == [raises |-> FALSE, url |-> IEEE_URL, anchors |-> <<Href(HREF_REL), Href(HREF_ABOUT)>>]

Record(a, t, y, e, p) == [author |-> a, title |-> t, year |-> y, ee |-> e, page |-> p]

Plain == Record(<<Text(ANN)>>, <<Text(TITLE1)>>, <<Text(YEAR)>>, <<>>, NoPage)
Decoy == Record(<<Text(BOB)>>, <<Text(TITLE2)>>, <<>>, <<>>, NoPage)

Response(arts, inps, bad) ==
    [raises |-> FALSE, article |-> arts, inproceedings |-> inps, bad |-> bad]

RaisingResponse == [raises |-> TRUE, article |-> <<>>, inproceedings |-> <<>>, bad |-> {}]

\* the records of main's runs, one per way a turn of the inner loop can end
NoTextAuthor == Record(<<Text(ANN), NoText>>, <<Text(TITLE1)>>, <<>>, <<>>, NoPage)
WithPdf == Record(<<Text(BOB)>>, <<Text(TITLE2)>>, <<Text(YEAR)>>, <<Text(GENERIC)>>, PdfPage)

Untitled == Record(<<>>, <<>>, <<>>, <<Text(GENERIC)>>, PdfPage)

PipelineResponses ==
    {RaisingResponse}
        \cup {Response(items, items, {}) : items \in {<<Plain>>, <<NoTextAuthor>>, <<WithPdf>>}}

\* the records of a single call: the metadata in all its shapes, alone and
\* several to a response, and the landing pages in all their shapes
FailingPageRecords ==
    {Record(<<Text(ANN)>>, t, <<Text(YEAR)>>, <<Text(GENERIC)>>, FailingPage) :
        t \in {<<>>, <<Text(TITLE1)>>}}

MetaRecords ==
    {Record(a, t, y, <<>>, NoPage) :
        a \in {<<>>, <<Text(ANN), Text(BOB)>>},
        t \in {<<>>, <<Text(TITLE2), Text(TITLE1)>>},
        y \in {<<>>, <<Text(YEAR)>>}}
      \cup {WithPdf, Untitled} \cup FailingPageRecords

NoTextRecords ==
    { NoTextAuthor,
      Record(<<>>, <<NoText>>, <<>>, <<>>, NoPage),
      Record(<<>>, <<>>, <<NoText, Text(YEAR)>>, <<>>, NoPage),
      Record(<<>>, <<>>, <<>>, <<NoText>>, NoPage) }

Pages ==
    {[raises |-> FALSE, url |-> u, anchors |-> as] :
        u \in {IEEE_URL, SITE_URL}, as \in SeqsUpTo(Anchors, MaxAnchors)}

LinkRecords ==
    {Record(<<Text(ANN)>>, t, <<>>, <<Text(l)>>, p) :
        t \in {<<>>, <<Text(TITLE1)>>},
        l \in {ARXIV1, ARXIV2, GENERIC, DOI1},
        p \in Pages}

InfoItems ==
    (SeqsUpTo(MetaRecords, MaxRecords) \ {<<>>})
        \cup {<<r>> : r \in NoTextRecords \cup LinkRecords}
        \cup {<<r, Plain>> : r \in FailingPageRecords \cup NoTextRecords}

InfoResponses ==
    {RaisingResponse}
        \cup {Response(items, <<Decoy>>, bad) : items \in InfoItems, bad \in {{}, {DOI1}}}

\* the calls of the single-call specification: a key and what comes back
InfoCalls ==
    ({JKEY} \X InfoResponses)
        \cup {<<CKEY, Response(<<Decoy>>, items, {})>> : items \in SeqsUpTo(MetaRecords, 1)}
        \cup ({PKEY} \X {RaisingResponse, Response(<<Plain>>, <<Plain>>, {})})

---------------------------------------------------------------------------
(* main.                                                                   *)

NoPapersFound(person) == <<"No papers found for">> \o person

\* a list built newest first
PrependInfo(list, value) == <<value>> \o list

\* paper_info_list.append(...)
AppendInfo(list, value) == Append(list, value)

\* where main goes once paper_list[1..k] is processed
AfterPaper(k, papers) == IF k = Len(papers) THEN "authors" ELSE "papers"

Init ==
    /\ author \in AuthorLists
    /\ download_pdf \in BOOLEAN
    /\ ai = 0
    /\ pc = "authors"
    /\ paper_list = <<>>
    /\ pi = 0
    /\ paper_info_list = <<>>
    /\ files = <<>>
    /\ dirs = {}
    /\ stdout = <<>>
    /\ writes = <<>>
    /\ call = [op |-> "none"]
    /\ ret = [raised |-> FALSE, value |-> None, log |-> <<>>]

\* the outer loop takes the next person: get_list_of_papers and what main
\* does with its result
GetListOfPapers ==
    /\ pc = "authors"
    /\ ai < Len(author)
    /\ \E search \in Searches, person \in Persons :
         LET name == author[ai + 1]
             asked == ~get_urlpt(name, search).raised
                         /\ get_urlpt(name, search).value # None
             r == get_list_of_papers(name, search, person)
         IN /\ asked \/ person = NoRequest
            /\ call' = [op |-> "list", name |-> name, search |-> search, person |-> person]
            /\ ret' = [raised |-> r.raised, value |-> r.value, log |-> <<>>]
            /\ ai' = ai + 1
            /\ writes' = Append(writes, 0)
            /\ IF r.raised
               THEN /\ pc' = "raised"
                    /\ UNCHANGED <<paper_list, pi, paper_info_list, stdout>>
               ELSE IF r.value = None
               THEN /\ stdout' = Append(stdout, NoPapersFound(name))
                    /\ pc' = "authors"
                    /\ UNCHANGED <<paper_list, pi, paper_info_list>>
               ELSE /\ paper_list' = r.value.v
                    /\ paper_info_list' = <<>>
                    /\ pi' = 0
                    /\ pc' = AfterPaper(0, r.value.v)
                    /\ UNCHANGED stdout
    /\ UNCHANGED <<author, download_pdf, files, dirs>>

\* what main does with r, the outcome of get_paper_info: append and save,
\* unless the call raised
AppendAndSave(r) ==
    /\ ret' = [raised |-> r.raised, value |-> r.value, log |-> r.log]
    /\ dirs' = r.dirs
    /\ IF r.raised
       THEN /\ pc' = "raised"
            /\ UNCHANGED <<pi, paper_info_list, files, writes>>
       ELSE /\ paper_info_list' = AppendInfo(paper_info_list, r.value)
            /\ files' = save_to_json(author[ai], paper_info_list', files)
            /\ writes' = [writes EXCEPT ![ai] = @ + 1]
            /\ pi' = pi + 1
            /\ pc' = AfterPaper(pi + 1, paper_list)

\* one turn of the inner loop: get_paper_info, append, save_to_json
Turn(resp) ==
    /\ call' = [op |-> "info", name |-> author[ai], paper |-> paper_list[pi + 1],
                resp |-> resp]
    /\ AppendAndSave(get_paper_info(paper_list[pi + 1], download_pdf, author[ai], resp, dirs))
    /\ UNCHANGED <<author, download_pdf, ai, paper_list, stdout>>

ProcessPaper ==
    /\ pc = "papers"
    /\ pi < Len(paper_list)
    /\ \E resp \in PipelineResponses : Turn(resp)

\* the outer loop is exhausted: main returns
Return ==
    /\ pc = "authors"
    /\ ai = Len(author)
    /\ pc' = "done"
    /\ UNCHANGED <<author, download_pdf, ai, paper_list, pi, paper_info_list,
                   files, dirs, stdout, writes, call, ret>>

Next == GetListOfPapers \/ ProcessPaper \/ Return

Spec == Init /\ [][Next]_vars

---------------------------------------------------------------------------
(* One turn of main's inner loop over every shape of answer: main has      *)
(* fetched the list of its first author, the key in hand and one more.     *)

InitInfo ==
    /\ author = <<ADA, BOB>>
    /\ download_pdf \in BOOLEAN
    /\ ai = 1
    /\ pc = "papers"
    /\ \E k \in {JKEY, CKEY, PKEY} :
         /\ paper_list = <<k, JKEY>>
         /\ call = [op |-> "list", name |-> ADA,
                    search |-> [raises |-> FALSE,
                                author |-> <<[hasUrlpt |-> TRUE, urlpt |-> <<"l", "/", "Lovelace:Ada">>]>>],
                    person |-> [raises |-> FALSE,
                                dblpkey |-> <<[type |-> "", texts |-> <<k>>],
                                              [type |-> "", texts |-> <<JKEY>>]>>]]
         /\ ret = [raised |-> FALSE, value |-> List(<<k, JKEY>>), log |-> <<>>]
    /\ pi = 0
    /\ paper_info_list = <<>>
    /\ files = <<>>
    /\ dirs = {}
    /\ stdout = <<>>
    /\ writes = <<0>>

ProcessFirst ==
    /\ pc = "papers"
    /\ pi = 0
    /\ \E c \in InfoCalls : c[1] = paper_list[1] /\ Turn(c[2])

SpecInfo == InitInfo /\ [][ProcessFirst]_vars

---------------------------------------------------------------------------
(* What the claims speak of.                                               *)

PersonFile == FileName(author[ai])

\* a step that is a turn of the inner loop
Processing == pc = "papers" /\ (pi' = pi + 1 \/ pc' = "raised")

Unsupported(paper) == Head(paper) \notin {"journals", "conf"}

\* C1: in main, immediately after the k-th key of an author is processed the
\* author's file holds exactly k entries, the k-th the entry of that key, and
\* its first k-1 entries are the content the previous save wrote.
C1_AppendOnly ==
    [][pi' = pi + 1 =>
          LET f == files'[PersonFile]
          IN /\ Len(f) = pi'
             /\ f[pi'] = Json(ret'.value)
             /\ pi >= 1 => SubSeq(f, 1, pi) = files[PersonFile]]_vars

C1_Witness ==
    /\ pi = 2
    /\ call.op = "info"
    /\ ~ret.raised
    /\ Len(files[PersonFile]) = 2
    /\ files[PersonFile][1] # files[PersonFile][2]

\* C2: an author name whose search answer holds no author element gets no
\* file, gets the "No papers found" line, raises nothing, and main goes on.
C2_NoMatchIsSkipped ==
    (call.op = "list" /\ ~call.search.raises /\ call.search.author = <<>>)
        => /\ ~ret.raised
           /\ pc # "raised"
           /\ stdout # <<>>
           /\ stdout[Len(stdout)] = NoPapersFound(call.name)

\* C3: a publication whose processing fails does not stop main while keys of
\* that author or further authors remain.
C3_FailureIsIsolated ==
    (call.op = "info" /\ ret.raised /\ (pi + 1 < Len(paper_list) \/ ai < Len(author)))
        => pc # "raised"

\* C8 as stated: a key that is neither journals nor conf, once processed,
\* leaves the accumulated list and the file as long as they were.
C8_NothingAppended ==
    [][(Processing /\ Unsupported(call'.paper) /\ ~ret'.raised)
          => /\ ret'.value = None
             /\ Len(paper_info_list') = Len(paper_info_list)
             /\ files' = files]_vars

\* C8 amended: for a key that is neither journals nor conf get_paper_info
\* never returns metadata: it returns None, and main appends that None and
\* saves it as one null entry (list and file grow by one), or the record
\* request raises and nothing is appended.
C8_NullAppended ==
    [][(Processing /\ Unsupported(call'.paper))
          => IF ret'.raised
             THEN /\ call'.resp.raises
                  /\ paper_info_list' = paper_info_list
                  /\ files' = files
             ELSE /\ ret'.value = None
                  /\ paper_info_list' = Append(paper_info_list, None)
                  /\ Len(files'[PersonFile]) = pi + 1
                  /\ files'[PersonFile][pi + 1].t = "null"]_vars

C8_Witness ==
    /\ call.op = "info"
    /\ Unsupported(call.paper)
    /\ ~ret.raised
    /\ pi >= 1
    /\ paper_info_list[pi] = None
    /\ files[PersonFile][pi].t = "null"

\* the answers say: the author has an identifier and no publication
ListedEmpty(c) ==
    /\ c.op = "list"
    /\ ~c.search.raises
    /\ c.search.author # <<>>
    /\ Head(c.search.author).hasUrlpt
    /\ ~c.person.raises
    /\ \A i \in DOMAIN c.person.dblpkey : c.person.dblpkey[i].type = "person record"

\* the publication list of the author in hand has been fetched
Fetched == call.op = "info" \/ (call.op = "list" /\ ~ret.raised /\ ret.value.t = "list")

\* C10: the saves made for an author are as many as the keys of that author
\* processed; a save happens only in the inner loop, after the author's list
\* is fetched; an author with an identifier and no publication gets no save,
\* no file and no "No papers found" line.
C10_SavesFollowKeys ==
    [][/\ ai' >= 1 => writes'[ai'] = (IF Fetched' THEN pi' ELSE 0)
       /\ \A i \in 1..ai : writes'[i] # writes[i] => i = ai /\ Fetched /\ pc = "papers"
       /\ ListedEmpty(call')
             => /\ stdout' = stdout
                /\ files' = files
                /\ writes'[ai'] = 0
                /\ FileName(author[ai']) \in DOMAIN files'
                      => \E j \in 1..(ai' - 1) : FileName(author[j]) = FileName(author[ai'])]_vars

C10_Witness ==
    /\ ai = 2
    /\ ListedEmpty(call)
    /\ writes = <<2, 0>>
    /\ stdout = <<>>
    /\ pc = "authors"

---------------------------------------------------------------------------
(* What the claims about one call speak of.                                *)

Max(S) == CHOOSE m \in S : \A n \in S : m >= n

\* the records of the answer that belong to the key's kind
Records ==
    IF Head(call.paper) = "journals" THEN call.resp.article
    ELSE IF Head(call.paper) = "conf" THEN call.resp.inproceedings
    ELSE <<>>

\* the call asked for the landing page of record i and it ended as o
PageEvent(i, o) ==
    \E j \in DOMAIN ret.log :
        ret.log[j].kind = "page" /\ ret.log[j].item = i /\ ret.log[j].outcome = o

\* the call's answer holds one record, with an external link
OneLinkedRecord ==
    /\ call.op = "info"
    /\ Len(Records) = 1
    /\ Records[1].ee # <<>>
    /\ Head(Records[1].ee).has

TheLink == Head(Records[1].ee).data

OnArxiv(link) ==
    \/ StartsWith(link, <<"http", "s", ":", "/", "/", "arxiv.org">>)
    \/ StartsWith(link, <<"http", ":", "/", "/", "arxiv.org">>)

\* C4 as stated: a landing-page request of the call raised and the call
\* returned; then the candidate list it stored is empty.
C4_AnyPageFailureEmpties ==
    (call.op = "info" /\ ~ret.raised
        /\ \E i \in DOMAIN Records : PageEvent(i, "request raised"))
        => ret.value.v["pdf_links"].v = <<>>

\* C4 amended: if fetching, parsing or scanning the landing page of the last
\* record of the answer raises, the stored candidate list is empty,
\* get_paper_info returns the metadata, and main appends it, saves it and
\* stays in the loop for the next key.
C4_LastPageFailureEmpties ==
    (call.op = "info" /\ Records # <<>>
        /\ (PageEvent(Len(Records), "request raised") \/ PageEvent(Len(Records), "scan raised")))
        => /\ ~ret.raised
           /\ ret.value.t = "dict"
           /\ ret.value.v["pdf_links"] = Str(<<>>)
           /\ ret.value.v["links"] = Str(Head(Records[Len(Records)].ee).data)
           /\ pi = 1
           /\ paper_info_list = <<ret.value>>
           /\ files[PersonFile] = <<[t |-> "object", v |-> ret.value.v]>>
           /\ pc = "papers"

C4_Witness ==
    /\ call.op = "info"
    /\ Len(Records) = 2
    /\ PageEvent(1, "ok")
    /\ PageEvent(2, "request raised")
    /\ ret.value.v["pdf_links"] = Str(<<>>)
    /\ Len(files[PersonFile]) = 1
    /\ pc = "papers"

\* C5: with downloads requested, a retrieval that raises loses no candidate
\* of the page (the stored list is the one a run without downloads stores)
\* and does not stop main.
C5_RetrievalFailureIsIsolated ==
    (call.op = "info" /\ download_pdf
        /\ \E j \in DOMAIN ret.log :
              ret.log[j].kind = "retrieval" /\ ret.log[j].outcome = "raised")
        => /\ ~ret.raised
           /\ pc # "raised"
           /\ ret.value.v["pdf_links"]
                 = get_paper_info(call.paper, FALSE, call.name, call.resp, {}).value.v["pdf_links"]

\* the link with its first "abs" made "pdf" and ".pdf" appended
C6_Rewritten(link) ==
    LET first == CHOOSE i \in DOMAIN link :
                    link[i] = "abs" /\ \A j \in 1..(i - 1) : link[j] # "abs"
    IN [i \in DOMAIN link |-> IF i = first THEN "pdf" ELSE link[i]] \o <<".", "pdf">>

\* C6 as stated (no download, every link of the page with an href): an
\* arXiv link whose page is fetched gives exactly the rewritten link.
C6_AlwaysOneCandidate ==
    (OneLinkedRecord /\ OnArxiv(TheLink) /\ ~Records[1].page.raises /\ ~download_pdf
        /\ \A i \in DOMAIN Records[1].page.anchors : Records[1].page.anchors[i].hasHref)
        => /\ ~ret.raised
           /\ ret.value.v["pdf_links"] = List(<<C6_Rewritten(TheLink)>>)

\* C6 amended: for an arXiv link whose page is fetched without error no link
\* of the page is ever a candidate: the list is exactly the rewritten link
\* when the page has a hyperlink and the scan of the first one raises
\* nothing, and is empty otherwise.
C6_ArxivCandidate ==
    (OneLinkedRecord /\ OnArxiv(TheLink) /\ ~Records[1].page.raises)
        => /\ ~ret.raised
           /\ ret.value.v["pdf_links"] =
                 IF Records[1].page.anchors = <<>> THEN List(<<>>)
                 ELSE IF PageEvent(1, "ok") THEN List(<<C6_Rewritten(TheLink)>>)
                 ELSE Str(<<>>)

C6_Witness ==
    /\ OneLinkedRecord
    /\ OnArxiv(TheLink)
    /\ Len(Records[1].page.anchors) = 2
    /\ \A i \in 1..2 : Records[1].page.anchors[i].hasHref
                          /\ EndsWith(Lower(Records[1].page.anchors[i].href), <<".", "pdf">>)
    /\ ~ret.raised
    /\ ret.value.v["pdf_links"].v = <<C6_Rewritten(TheLink)>>

\* the candidate the domain-repair rule gives for an href
C7_Repaired(href, url) ==
    LET escaped == {i \in DOMAIN href : href[i] = "%2F"}
        h == [i \in DOMAIN href |->
                 IF escaped # {} /\ i = Min(escaped) THEN "/" ELSE href[i]]
        D == IF url[2] = "s" THEN SubSeq(url, 1, 6) ELSE SubSeq(url, 1, 5)
    IN IF StartsWith(h, D) THEN h
       ELSE IF h[1] = "http" THEN h
       ELSE D \o h

EndsInPdf(a) == a.hasHref /\ EndsWith(Lower(a.href), <<".", "pdf">>)

C7_Expected(page) ==
    LET pdfs == SelectSeq(page.anchors, EndsInPdf)
    IN [i \in DOMAIN pdfs |-> C7_Repaired(pdfs[i].href, page.url)]

\* C7 (no download): for a link that is not arXiv's, whose page is fetched,
\* the candidates are the repaired hrefs of the links ending in .pdf, one
\* each, in document order.
C7_EveryPdfLinkIsACandidate ==
    (OneLinkedRecord /\ ~OnArxiv(TheLink) /\ ~Records[1].page.raises /\ ~download_pdf)
        => /\ ~ret.raised
           /\ ret.value.v["pdf_links"].v = C7_Expected(Records[1].page)

\* the call's answer narrowed to its record i
Alone(i) ==
    get_paper_info(call.paper, FALSE, call.name,
                   [call.resp EXCEPT !.article = <<Records[i]>>,
                                     !.inproceedings = <<Records[i]>>], {})

\* C9 as stated (no download): with several records in the answer the
\* returned metadata is that of the last record alone.
C9_LastRecordWins ==
    (call.op = "info" /\ Len(Records) >= 2 /\ ~ret.raised /\ ~download_pdf)
        => ret.value = Alone(Len(Records)).value

RECURSIVE C9_AllAuthors(_)
C9_AllAuthors(rs) ==
    IF rs = <<>> THEN <<>>
    ELSE [i \in DOMAIN Head(rs).author |-> Head(rs).author[i].data] \o C9_AllAuthors(Tail(rs))

\* C9 amended: with several records in the answer, year and external link
\* are those of the last record; the authors are those of all the records,
\* in order; the title is that of the last record that has a title; the
\* candidate links are those of the last record that has an external link
\* (or empty, when a retrieval for that record raised).
C9_LastRecordPartly ==
    (call.op = "info" /\ Len(Records) >= 2 /\ ~ret.raised)
        => LET d == ret.value.v
               last == Records[Len(Records)]
               titled == {i \in DOMAIN Records : Records[i].title # <<>>}
               linked == {i \in DOMAIN Records : Records[i].ee # <<>>}
           IN /\ d["year"] = Str(IF last.year = <<>> THEN <<"0">> ELSE Head(last.year).data)
              /\ d["links"] = Str(IF last.ee = <<>> THEN <<>> ELSE Head(last.ee).data)
              /\ IF C9_AllAuthors(Records) = <<>>
                 THEN "author" \notin DOMAIN d
                 ELSE d["author"] = List(C9_AllAuthors(Records))
              /\ IF titled = {}
                 THEN "title" \in DOMAIN d => d["title"] = List(<<>>)
                 ELSE d["title"] = Str(Head(Records[Max(titled)].title).data)
              /\ IF linked = {}
                 THEN "pdf_links" \notin DOMAIN d
                 ELSE /\ d["pdf_links"] \in {Alone(Max(linked)).value.v["pdf_links"], Str(<<>>)}
                      /\ ~download_pdf
                            => d["pdf_links"] = Alone(Max(linked)).value.v["pdf_links"]

C9_Witness ==
    /\ call.op = "info"
    /\ Len(Records) = 2
    /\ ~ret.raised
    /\ Records[1].author # <<>>
    /\ Records[2].author # <<>>
    /\ Records[1].ee # <<>>
    /\ Records[2].ee = <<>>
    /\ Len(ret.value.v["author"].v) = Len(Records[1].author) + Len(Records[2].author)
    /\ ret.value.v["pdf_links"].v # <<>>

=============================================================================
